---- MODULE Spec2Model ----
(***************************************************************************)
(* okahistory: the undo/redo history engine of useHistory().               *)
(*                                                                         *)
(* The engine is modelled as a record `h` holding the closure variables    *)
(* of useHistory (reducerMap, historyStack, currentStackIndex, max), the   *)
(* caller-owned external state the reducers write, the value the caller    *)
(* got from serialize(), and what the last API call did to the outside     *)
(* world (reducer calls, onUpdated calls, whether it threw).  Every        *)
(* function of the source is an operator from engine record to engine      *)
(* record; every API method is one action applying its operator.           *)
(***************************************************************************)
EXTENDS Integers, Sequences, FiniteSets, TLC

\* ------------------------------------------------------------------------
\* Bounds of the model
\* ------------------------------------------------------------------------
\* redo arguments are drawn from 1..MaxArg (the external state starts at 0)
MaxArg == 2
\* dispatch calls made on one engine
MaxDispatch == 3
\* explicit values of the `max` option are drawn from 0..MaxCap
MaxCap == 2
\* dispatch calls of the round-trip scenario
MaxRoundTrip == 4
\* longest sequence of undo() / redo() calls compared on two engines
MaxSteps == 4
\* dispatch calls of the caller that registers reducers again
MaxRedefined == 2

\* the default of the `max` option
DefaultMax == 64

VARIABLES
  max,                \* options.max ?? 64
  reducerMap,         \* name -> registered reducer, or Undefined
  historyStack,       \* the array historyStack refers to (index 1 is JS index 0)
  currentStackIndex,  \* JS index of the last done entry, -1 when none
  state,              \* the external state the reducers read and write
  data,               \* what the caller holds from its last serialize() call
  calls,              \* reducer functions invoked by the last API call, in order
  notified,           \* what each onUpdated() of the last API call could observe
  op,                 \* the last API call and how it ended
  nDispatch,          \* number of dispatch calls made so far
  phase,              \* round-trip scenario: "dispatch", "undo" or "redo"
  observed,           \* round-trip scenario: external state after the dispatches
  priorStates         \* eviction scenario: external state before each retained entry was applied

vars == <<max, reducerMap, historyStack, currentStackIndex, state, data,
          calls, notified, op, nDispatch, phase, observed, priorStates>>

\* ------------------------------------------------------------------------
\* Values
\* ------------------------------------------------------------------------
Undefined == "undefined"

ActionNames == {"ope_a", "ope_b"}
Args == 1..MaxArg
SeriesKeys == {Undefined, "k"}

\* children?: Action[] is either absent or an array
NoChildren == [defined |-> FALSE, items |-> <<>>]
ChildrenOf(items) == [defined |-> TRUE, items |-> items]

ChildAction(name, args) == [name |-> name, args |-> args, seriesKey |-> Undefined]

\* the actions the caller dispatches
Actions == [name : ActionNames, args : Args, seriesKey : SeriesKeys]

\* the child lists it passes with them: absent, empty, one child, another name,
\* two children writing the same field
ChildLists ==
  { NoChildren,
    ChildrenOf(<<>>),
    ChildrenOf(<<ChildAction("ope_b", 1)>>),
    ChildrenOf(<<ChildAction("ope_a", MaxArg)>>),
    ChildrenOf(<<ChildAction("ope_b", 1), ChildAction("ope_b", MaxArg)>>) }

\* dispatch(action, children) calls: every action alone, the actions with
\* args 1 of ope_a with every child list, and ope_b with a child
Dispatches ==
  { d \in [action : Actions, children : ChildLists] :
      d.children.defined =>
        \/ d.action.name = "ope_a" /\ d.action.args = 1
        \/ /\ d.action = [name |-> "ope_b", args |-> 1, seriesKey |-> Undefined]
           /\ d.children = ChildrenOf(<<ChildAction("ope_a", MaxArg)>>) }

\* dispatch calls of the caller that also serializes: no children, no seriesKey
PlainDispatches ==
  { d \in Dispatches : ~d.children.defined /\ d.action.seriesKey = Undefined }

\* The reducers the caller registers (those of the test setup): ope_a writes
\* state.value; ope_b writes state.value2, has a getLabel and, as the reducer of
\* the ignoreDuplication test, ignores duplicates with the default check.
Reducer(id) ==
  CASE id = "reducer_a" ->
         [field |-> "value", hasLabel |-> FALSE, ignoreDuplication |-> FALSE]
    [] id = "reducer_b" ->
         [field |-> "value2", hasLabel |-> TRUE, ignoreDuplication |-> TRUE]

\* (name, reducer) pairs passed to defineReducer
Definitions == { <<"ope_a", "reducer_a">>, <<"ope_b", "reducer_b">> }

\* SerializedState.version, and a version this library does not write
Versions == {"0", "1"}

Call(fn, name, args) == [fn |-> fn, name |-> name, args |-> args]

\* ------------------------------------------------------------------------
\* The engine record and the primitives of the source
\* ------------------------------------------------------------------------
Throw(h) == [h EXCEPT !.outcome = "threw"]

\* onUpdated(): the callback sees the stack and the index as they are now
onUpdated(h) ==
  [h EXCEPT !.notified = Append(@, [length |-> Len(h.historyStack),
                                    index |-> h.currentStackIndex])]

\* reducer.redo(args): writes the reducer's field, returns the value it had
ReducerRedo(h, name, args) ==
  LET f == Reducer(h.reducerMap[name]).field
  IN [h EXCEPT !.state[f] = args,
               !.ret = h.state[f],
               !.calls = Append(@, Call("redo", name, args))]

\* reducer.undo(undoArgs): writes the saved value back
ReducerUndo(h, name, undoArgs) ==
  LET f == Reducer(h.reducerMap[name]).field
  IN [h EXCEPT !.state[f] = undoArgs,
               !.calls = Append(@, Call("undo", name, undoArgs))]

\* In-place mutations of the array historyStack refers to.  The value returned
\* by serialize() holds the same array until historyStack is reassigned.
InPlace(h, val) ==
  [h EXCEPT !.historyStack = val,
            !.data.stack = IF h.data.aliased THEN val ELSE @]

ArrayPush(h, item) == InPlace(h, Append(h.historyStack, item))

ArrayShift(h) == InPlace(h, Tail(h.historyStack))

\* Array.prototype.splice(start, deleteCount) with 0 <= start
ArraySplice(h, start, deleteCount) ==
  LET n == Len(h.historyStack)
      s == IF start > n THEN n ELSE start
      d == IF deleteCount < 0 THEN 0
           ELSE IF deleteCount > n - s THEN n - s ELSE deleteCount
  IN InPlace(h, SubSeq(h.historyStack, 1, s) \o SubSeq(h.historyStack, s + d + 1, n))

setHistoryStack(h, val) ==
  onUpdated([h EXCEPT !.historyStack = val, !.data.aliased = FALSE])

getReducer(h, name) == h.reducerMap[name]

Truthy(seriesKey) == seriesKey # Undefined /\ seriesKey # ""

hasSameSeriesKey(a, b) ==
  Truthy(a.seriesKey) /\ Truthy(b.seriesKey) /\ a.seriesKey = b.seriesKey

\* checkFn is the callback as a function of the items of arr
splitArray(arr, checkFn) ==
  [isTrue  |-> SelectSeq(arr, LAMBDA item : checkFn[item]),
   isFalse |-> SelectSeq(arr, LAMBDA item : ~checkFn[item])]

defaultCheckDuplicationFn(a, b) == a = b

isSameTypeSavedAction(a, b) ==
  /\ a.name = b.name
  /\ \/ (~a.children.defined /\ ~b.children.defined)
     \/ /\ a.children.defined
        /\ b.children.defined
        /\ Len(a.children.items) = Len(b.children.items)
        /\ \A i \in 1..Len(a.children.items) :
             a.children.items[i].name = b.children.items[i].name

\* ------------------------------------------------------------------------
\* dispatch and pushHistory
\* ------------------------------------------------------------------------
SavedChild(name, redoArgs, undoArgs) ==
  [name |-> name, redoArgs |-> redoArgs, undoArgs |-> undoArgs]

SavedAction(name, redoArgs, undoArgs, seriesKey, children) ==
  [name |-> name, redoArgs |-> redoArgs, undoArgs |-> undoArgs,
   seriesKey |-> seriesKey, children |-> children]

\* pushHistory, first statement: a dispatch below the last index drops the
\* entries above the index (the redo branch)
truncate_keeps_one(h) ==
  LET n0 == Len(h.historyStack)
  IN IF h.currentStackIndex < n0 - 1
     THEN ArraySplice(h, h.currentStackIndex + 2, n0 - h.currentStackIndex)
     ELSE h

truncateRedoBranch(h) ==
  LET n0 == Len(h.historyStack)
  IN IF h.currentStackIndex < n0 - 1
     THEN ArraySplice(h, h.currentStackIndex + 1, n0 - h.currentStackIndex)
     ELSE h

\* pushHistory, second statement: the entry is appended, or replaces the entries
\* of its series and inherits the undoArgs of the first of them
coalesce_own_undoArgs(h, savedAction) ==
  LET splitedByKey ==
        splitArray(h.historyStack,
                   [a \in {h.historyStack[i] : i \in DOMAIN h.historyStack} |->
                      hasSameSeriesKey(a, savedAction)])
      before == splitedByKey.isTrue[1]
  IN IF Truthy(savedAction.seriesKey)
     THEN IF Len(splitedByKey.isTrue) > 0
          THEN IF isSameTypeSavedAction(before, savedAction)
               THEN setHistoryStack(h, Append(splitedByKey.isFalse, savedAction))
               ELSE ArrayPush(h, savedAction)
          ELSE ArrayPush(h, savedAction)
     ELSE ArrayPush(h, savedAction)

\* coalescing that puts the new entry where the series began
coalesce_in_place(h, savedAction) ==
  LET splitedByKey ==
        splitArray(h.historyStack,
                   [a \in {h.historyStack[i] : i \in DOMAIN h.historyStack} |->
                      hasSameSeriesKey(a, savedAction)])
      before == splitedByKey.isTrue[1]
      saved == [savedAction EXCEPT !.undoArgs = before.undoArgs]
  IN IF /\ Truthy(savedAction.seriesKey)
        /\ Len(splitedByKey.isTrue) > 0
        /\ isSameTypeSavedAction(before, savedAction)
        /\ ~savedAction.children.defined
     THEN setHistoryStack(h, <<saved>> \o splitedByKey.isFalse)
     ELSE ArrayPush(h, savedAction)

coalesce_any_type(h, savedAction) ==
  LET splitedByKey ==
        splitArray(h.historyStack,
                   [a \in {h.historyStack[i] : i \in DOMAIN h.historyStack} |->
                      hasSameSeriesKey(a, savedAction)])
  IN IF Truthy(savedAction.seriesKey) /\ Len(splitedByKey.isTrue) > 0
     THEN setHistoryStack(h, Append(splitedByKey.isFalse, savedAction))
     ELSE ArrayPush(h, savedAction)

coalesce_children_own_undoArgs(h, savedAction) ==
  LET splitedByKey ==
        splitArray(h.historyStack,
                   [a \in {h.historyStack[i] : i \in DOMAIN h.historyStack} |->
                      hasSameSeriesKey(a, savedAction)])
      before == splitedByKey.isTrue[1]
      saved == [savedAction EXCEPT !.undoArgs = before.undoArgs]
  IN IF Truthy(savedAction.seriesKey)
     THEN IF Len(splitedByKey.isTrue) > 0
          THEN IF isSameTypeSavedAction(before, savedAction)
               THEN setHistoryStack(h, Append(splitedByKey.isFalse, saved))
               ELSE ArrayPush(h, savedAction)
          ELSE ArrayPush(h, savedAction)
     ELSE ArrayPush(h, savedAction)

coalesceSeries(h, savedAction) ==
  LET splitedByKey ==
        splitArray(h.historyStack,
                   [a \in {h.historyStack[i] : i \in DOMAIN h.historyStack} |->
                      hasSameSeriesKey(a, savedAction)])
      before == splitedByKey.isTrue[1]
      saved ==
        [savedAction EXCEPT
           !.undoArgs = before.undoArgs,
           !.children =
             IF savedAction.children.defined
             THEN ChildrenOf([i \in 1..Len(savedAction.children.items) |->
                    [savedAction.children.items[i] EXCEPT
                       !.undoArgs = before.children.items[i].undoArgs]])
             ELSE NoChildren]
  IN IF Truthy(savedAction.seriesKey)
     THEN IF Len(splitedByKey.isTrue) > 0
          THEN IF isSameTypeSavedAction(before, savedAction)
               THEN setHistoryStack(h, Append(splitedByKey.isFalse, saved))
               ELSE ArrayPush(h, savedAction)
          ELSE ArrayPush(h, savedAction)
     ELSE ArrayPush(h, savedAction)

\* pushHistory, third statement: a stack longer than max loses its first entry
cap_drops_newest(h) ==
  IF Len(h.historyStack) > h.max
  THEN InPlace(h, SubSeq(h.historyStack, 1, Len(h.historyStack) - 1))
  ELSE h

capLength(h) ==
  IF Len(h.historyStack) > h.max THEN ArrayShift(h) ELSE h

\* pushHistory, last statements: the index is the last one, onUpdated is called
index_incremented(h) ==
  onUpdated([h EXCEPT !.currentStackIndex = h.currentStackIndex + 1])

pointAtLast(h) ==
  onUpdated([h EXCEPT !.currentStackIndex = Len(h.historyStack) - 1])

pushHistory_scans_whole_stack(h, savedAction) ==
  LET scanned == coalesceSeries(h, savedAction)
      saved == scanned.historyStack[Len(scanned.historyStack)]
  IN pointAtLast(capLength(coalesceSeries(truncateRedoBranch(h), saved)))

pushHistory_caps_first(h, savedAction) ==
  LET truncated == truncateRedoBranch(h)
      capped == IF /\ Len(truncated.historyStack) + 1 > truncated.max
                   /\ Len(truncated.historyStack) > 0
                THEN ArrayShift(truncated)
                ELSE truncated
  IN pointAtLast(capLength(coalesceSeries(capped, savedAction)))

pushHistory(h, savedAction) ==
  pointAtLast(capLength(coalesceSeries(truncateRedoBranch(h), savedAction)))

\* children?.map(...): each child's reducer is looked up and its redo called in
\* turn; a missing reducer throws and leaves what was already called in effect.
RECURSIVE MapChildren(_, _, _)
MapChildren(r, children, i) ==
  IF i > Len(children) \/ r.h.outcome = "threw" THEN r
  ELSE LET a == children[i]
       IN IF getReducer(r.h, a.name) = Undefined
          THEN [r EXCEPT !.h = Throw(r.h)]
          ELSE LET h1 == ReducerRedo(r.h, a.name, a.args)
               IN MapChildren(
                    [h |-> h1,
                     items |-> Append(r.items, SavedChild(a.name, a.args, h1.ret))],
                    children, i + 1)

\* is historyStack[i] (JS index) an element of the array
HasEntry(h, i) == 0 <= i /\ i < Len(h.historyStack)

\* the duplication check without the comparison of the names
isDuplication_args_only(h, action) ==
  LET currentAction == h.historyStack[h.currentStackIndex + 1]
  IN defaultCheckDuplicationFn(action.args, currentAction.redoArgs)

isDuplication(h, action) ==
  LET currentAction == h.historyStack[h.currentStackIndex + 1]
  IN /\ currentAction.name = action.name
     /\ defaultCheckDuplicationFn(action.args, currentAction.redoArgs)

\* the duplication check with the children compared as well (the TODO of the
\* check): a dispatch whose children differ from the recorded ones is recorded
dispatch_checks_children(h, action, children) ==
  IF getReducer(h, action.name) = Undefined THEN Throw(h)
  ELSE
    LET reducer == Reducer(getReducer(h, action.name))
        h1 == ReducerRedo(h, action.name, action.args)
        r  == IF children.defined
              THEN MapChildren([h |-> h1, items |-> <<>>], children.items, 1)
              ELSE [h |-> h1, items |-> <<>>]
        savedAction ==
          SavedAction(action.name, action.args, h1.ret, action.seriesKey,
                      IF children.defined THEN ChildrenOf(r.items) ELSE NoChildren)
        record == IF r.h.outcome = "threw" THEN r.h ELSE pushHistory(r.h, savedAction)
        sameChildren ==
          LET saved == h.historyStack[h.currentStackIndex + 1].children
          IN /\ saved.defined = children.defined
             /\ Len(saved.items) = Len(children.items)
             /\ \A i \in DOMAIN saved.items :
                  /\ saved.items[i].name = children.items[i].name
                  /\ saved.items[i].redoArgs = children.items[i].args
    IN IF reducer.ignoreDuplication /\ h.currentStackIndex # -1
       THEN IF ~HasEntry(h, h.currentStackIndex)
            THEN Throw(h)
            ELSE IF isDuplication(h, action) /\ sameChildren
                 THEN [h EXCEPT !.outcome = "ignored"]
                 ELSE record
       ELSE record

dispatch(h, action, children) ==
  IF getReducer(h, action.name) = Undefined THEN Throw(h)
  ELSE
    LET reducer == Reducer(getReducer(h, action.name))
        h1 == ReducerRedo(h, action.name, action.args)
        r  == IF children.defined
              THEN MapChildren([h |-> h1, items |-> <<>>], children.items, 1)
              ELSE [h |-> h1, items |-> <<>>]
        savedAction ==
          SavedAction(action.name, action.args, h1.ret, action.seriesKey,
                      IF children.defined THEN ChildrenOf(r.items) ELSE NoChildren)
        record == IF r.h.outcome = "threw" THEN r.h ELSE pushHistory(r.h, savedAction)
    IN IF reducer.ignoreDuplication /\ h.currentStackIndex # -1
       THEN IF ~HasEntry(h, h.currentStackIndex)
            THEN Throw(h)  \* currentAction is undefined: reading its name throws
            ELSE IF isDuplication(h, action)
                 THEN [h EXCEPT !.outcome = "ignored"]
                 ELSE record
       ELSE record

\* ------------------------------------------------------------------------
\* undo, redo, jump
\* ------------------------------------------------------------------------
\* forEach over saved children calling one reducer function each; reading a
\* function of a reducer that is not registered throws.
RECURSIVE RedoChildren(_, _, _)
RedoChildren(h, items, i) ==
  IF i > Len(items) \/ h.outcome = "threw" THEN h
  ELSE IF h.reducerMap[items[i].name] = Undefined THEN Throw(h)
  ELSE RedoChildren(ReducerRedo(h, items[i].name, items[i].redoArgs), items, i + 1)

RECURSIVE UndoChildren(_, _, _)
UndoChildren(h, items, i) ==
  IF i < 1 \/ h.outcome = "threw" THEN h
  ELSE IF h.reducerMap[items[i].name] = Undefined THEN Throw(h)
  ELSE UndoChildren(ReducerUndo(h, items[i].name, items[i].undoArgs), items, i - 1)

_redo_keeps_returned_undoArgs(h) ==
  IF ~HasEntry(h, h.currentStackIndex + 1) THEN Throw(h)
  ELSE
    LET current == h.historyStack[h.currentStackIndex + 2]
        h1 == IF h.reducerMap[current.name] = Undefined THEN Throw(h)
              ELSE ReducerRedo(h, current.name, current.redoArgs)
        h2 == IF current.children.defined
              THEN RedoChildren(h1, current.children.items, 1)
              ELSE h1
    IN IF h2.outcome = "threw" THEN h2
       ELSE [h2 EXCEPT !.historyStack[h.currentStackIndex + 2].undoArgs = h1.ret,
                       !.currentStackIndex = h.currentStackIndex + 1]

_redo(h) ==
  IF ~HasEntry(h, h.currentStackIndex + 1) THEN Throw(h)
  ELSE
    LET current == h.historyStack[h.currentStackIndex + 2]
        h1 == IF h.reducerMap[current.name] = Undefined THEN Throw(h)
              ELSE ReducerRedo(h, current.name, current.redoArgs)
        h2 == IF current.children.defined
              THEN RedoChildren(h1, current.children.items, 1)
              ELSE h1
    IN IF h2.outcome = "threw" THEN h2
       ELSE [h2 EXCEPT !.currentStackIndex = h.currentStackIndex + 1]

\* forEach over the children without the reverse()
RECURSIVE UndoChildrenForward(_, _, _)
UndoChildrenForward(h, items, i) ==
  IF i > Len(items) \/ h.outcome = "threw" THEN h
  ELSE IF h.reducerMap[items[i].name] = Undefined THEN Throw(h)
  ELSE UndoChildrenForward(ReducerUndo(h, items[i].name, items[i].undoArgs),
                           items, i + 1)

undo_children_in_order(h) ==
  IF ~HasEntry(h, h.currentStackIndex) THEN Throw(h)
  ELSE
    LET current == h.historyStack[h.currentStackIndex + 1]
        h1 == IF current.children.defined
              THEN UndoChildrenForward(h, current.children.items, 1)
              ELSE h
        h2 == IF h1.outcome = "threw" THEN h1
              ELSE IF h.reducerMap[current.name] = Undefined THEN Throw(h1)
              ELSE ReducerUndo(h1, current.name, current.undoArgs)
    IN IF h2.outcome = "threw" THEN h2
       ELSE [h2 EXCEPT !.currentStackIndex = h.currentStackIndex - 1]

_undo(h) ==
  IF ~HasEntry(h, h.currentStackIndex) THEN Throw(h)
  ELSE
    LET current == h.historyStack[h.currentStackIndex + 1]
        h1 == IF current.children.defined
              THEN UndoChildren(h, current.children.items, Len(current.children.items))
              ELSE h
        h2 == IF h1.outcome = "threw" THEN h1
              ELSE IF h.reducerMap[current.name] = Undefined THEN Throw(h1)
              ELSE ReducerUndo(h1, current.name, current.undoArgs)
    IN IF h2.outcome = "threw" THEN h2
       ELSE [h2 EXCEPT !.currentStackIndex = h.currentStackIndex - 1]

\* a call that threw does not reach the statements after it
thenOnUpdated(h) == IF h.outcome = "threw" THEN h ELSE onUpdated(h)

redo(h) ==
  IF h.currentStackIndex < Len(h.historyStack) - 1
  THEN thenOnUpdated(_redo(h))
  ELSE [h EXCEPT !.outcome = "ignored"]

undo_always_notifies(h) ==
  IF -1 < h.currentStackIndex
  THEN thenOnUpdated(_undo(h))
  ELSE onUpdated([h EXCEPT !.outcome = "ignored"])

undo(h) ==
  IF -1 < h.currentStackIndex
  THEN thenOnUpdated(_undo(h))
  ELSE [h EXCEPT !.outcome = "ignored"]

\* [...Array(n)].forEach(() => _undo()): n calls, cut short by a throw
RECURSIVE RepeatUndo(_, _)
RepeatUndo(h, n) ==
  IF n <= 0 \/ h.outcome = "threw" THEN h ELSE RepeatUndo(_undo(h), n - 1)

\* [...Array(n)].forEach(() => _redo())
RECURSIVE RepeatRedo(_, _)
RepeatRedo(h, n) ==
  IF n <= 0 \/ h.outcome = "threw" THEN h ELSE RepeatRedo(_redo(h), n - 1)

MathMin(a, b) == IF a < b THEN a ELSE b
MathMax(a, b) == IF a > b THEN a ELSE b

jump(h, index) ==
  LET target == MathMin(Len(h.historyStack) - 1, MathMax(-1, index))
  IN IF target < h.currentStackIndex
     THEN thenOnUpdated(RepeatUndo(h, h.currentStackIndex - target))
     ELSE IF target > h.currentStackIndex
          THEN thenOnUpdated(RepeatRedo(h, target - h.currentStackIndex))
          ELSE [h EXCEPT !.outcome = "ignored"]

\* ------------------------------------------------------------------------
\* serialize, deserialize, clear, defineReducer
\* ------------------------------------------------------------------------
\* returns { version, stack: historyStack, currentStackIndex }: the array itself
serialize(h) ==
  [h EXCEPT !.data = [taken |-> TRUE, version |-> "0",
                      stack |-> h.historyStack,
                      currentStackIndex |-> h.currentStackIndex,
                      aliased |-> TRUE]]

\* deserialize that leaves the index on the last entry
deserialize_to_last(h, snapshot) ==
  LET h1 == setHistoryStack(h, snapshot.stack)
  IN [h1 EXCEPT !.currentStackIndex = Len(snapshot.stack) - 1]

\* deserialize that notifies again once the index is assigned
deserialize_then_onUpdated(h, snapshot) ==
  LET h1 == setHistoryStack(h, snapshot.stack)
  IN onUpdated([h1 EXCEPT !.currentStackIndex = snapshot.currentStackIndex])

deserialize(h, snapshot) ==
  LET h1 == setHistoryStack(h, snapshot.stack)
  IN [h1 EXCEPT !.currentStackIndex = snapshot.currentStackIndex]

clear_keeps_index(h) ==
  setHistoryStack(h, <<>>)

clear(h) ==
  LET h1 == setHistoryStack(h, <<>>)
  IN [h1 EXCEPT !.currentStackIndex = -1]

defineReducer_keeps_first(h, name, reducer) ==
  IF h.reducerMap[name] = Undefined
  THEN [h EXCEPT !.reducerMap[name] = reducer]
  ELSE h

defineReducer(h, name, reducer) ==
  [h EXCEPT !.reducerMap[name] = reducer]

\* for (const name in reducers) reducerMap[name] = reducers[name]; `reducers`
\* gives Undefined for the names the object does not have
RECURSIVE AssignEach(_, _, _)
AssignEach(h, reducers, names) ==
  IF names = {} THEN h
  ELSE LET name == CHOOSE n \in names : TRUE
       IN AssignEach(defineReducer(h, name, reducers[name]), reducers,
                     names \ {name})

defineReducers(h, reducers) ==
  AssignEach(h, reducers, { n \in DOMAIN reducers : reducers[n] # Undefined })

getCurrentIndex(h) == h.currentStackIndex

\* reducer.getLabel?.(action): ope_b's getLabel is `label_${action.name}`;
\* ope_a has none, so the optional call gives undefined
getLabel(reducer, action) ==
  IF Reducer(reducer).hasLabel THEN "label_" \o action.name ELSE Undefined

\* a ?? b
Coalesce(a, b) == IF a = Undefined THEN b ELSE a

getActionSummaries_done_below(h) ==
  IF \E i \in DOMAIN h.historyStack :
       getReducer(h, h.historyStack[i].name) = Undefined
  THEN Throw(h)
  ELSE [h EXCEPT !.ret =
         [i \in DOMAIN h.historyStack |->
            LET a == h.historyStack[i]
                reducer == getReducer(h, a.name)
            IN [name  |-> a.name,
                label |-> Coalesce(getLabel(reducer, [name |-> a.name,
                                                       args |-> a.redoArgs]),
                                   a.name),
                done  |-> i - 1 < h.currentStackIndex]]]

\* historyStack.map: one summary per entry, in order; index i of the callback
\* is i - 1 here.  getReducer throws for a name without a reducer.
getActionSummaries(h) ==
  IF \E i \in DOMAIN h.historyStack :
       getReducer(h, h.historyStack[i].name) = Undefined
  THEN Throw(h)
  ELSE [h EXCEPT !.ret =
         [i \in DOMAIN h.historyStack |->
            LET a == h.historyStack[i]
                reducer == getReducer(h, a.name)
            IN [name  |-> a.name,
                label |-> Coalesce(getLabel(reducer, [name |-> a.name,
                                                       args |-> a.redoArgs]),
                                   a.name),
                done  |-> i - 1 <= h.currentStackIndex]]]

\* another = useHistory() of the same caller: an empty engine with the same
\* reducers registered, writing the same external state
another(h) ==
  [h EXCEPT !.historyStack = <<>>,
            !.currentStackIndex = -1,
            !.data.aliased = FALSE]

\* ------------------------------------------------------------------------
\* The state machine
\* ------------------------------------------------------------------------
\* the engine as an API call finds it
Engine ==
  [max |-> max, reducerMap |-> reducerMap, historyStack |-> historyStack,
   currentStackIndex |-> currentStackIndex, state |-> state, data |-> data,
   calls |-> <<>>, notified |-> <<>>, outcome |-> "ok", ret |-> 0]

NoAction == [name |-> "", args |-> 0, seriesKey |-> Undefined]

\* an API call: its arguments and the engine it was made on
ApiCall(name, action, children, index) ==
  [name |-> name, action |-> action, children |-> children, index |-> index,
   version |-> Undefined, from |-> Engine, outcome |-> "ok"]

\* the engine as the API call leaves it
Commit(h, call) ==
  /\ reducerMap' = h.reducerMap
  /\ historyStack' = h.historyStack
  /\ currentStackIndex' = h.currentStackIndex
  /\ state' = h.state
  /\ data' = h.data
  /\ calls' = h.calls
  /\ notified' = h.notified
  /\ op' = [call EXCEPT !.outcome = h.outcome]
  /\ UNCHANGED max

MaxOptions == (0..MaxCap) \cup {DefaultMax}
JumpIndexes == (-2)..MaxDispatch

\* useHistory(options)
Init ==
  /\ max \in MaxOptions
  /\ reducerMap = [name \in ActionNames |-> Undefined]
  /\ historyStack = <<>>
  /\ currentStackIndex = -1
  /\ state = [value |-> 0, value2 |-> 0]
  /\ data = [taken |-> FALSE, version |-> "0", stack |-> <<>>,
             currentStackIndex |-> -1, aliased |-> FALSE]
  /\ calls = <<>>
  /\ notified = <<>>
  /\ op = [name |-> "useHistory", action |-> NoAction, children |-> NoChildren,
           index |-> 0, version |-> Undefined, from |-> Engine,
           outcome |-> "ok"]
  /\ nDispatch = 0
  /\ phase = "dispatch"
  /\ observed = [value |-> 0, value2 |-> 0]
  /\ priorStates = <<>>

\* defineReducer(name, reducer) for a name that has no reducer yet
DefineReducer ==
  /\ \E d \in Definitions :
       /\ reducerMap[d[1]] = Undefined
       /\ Commit(defineReducer(Engine, d[1], d[2]),
                 ApiCall("defineReducer", [NoAction EXCEPT !.name = d[1]],
                         NoChildren, 0))
  /\ UNCHANGED <<nDispatch, phase, observed, priorStates>>

\* dispatch(action, children) with the arguments drawn from `inputs`
DispatchFrom(inputs, limit) ==
  /\ nDispatch < limit
  /\ \E d \in inputs :
       Commit(dispatch(Engine, d.action, d.children),
              ApiCall("dispatch", d.action, d.children, 0))
  /\ nDispatch' = nDispatch + 1

Dispatch ==
  /\ DispatchFrom(Dispatches, MaxDispatch)
  /\ UNCHANGED <<phase, observed, priorStates>>

Undo ==
  /\ Commit(undo(Engine), ApiCall("undo", NoAction, NoChildren, 0))
  /\ UNCHANGED <<nDispatch, phase, observed, priorStates>>

Redo ==
  /\ Commit(redo(Engine), ApiCall("redo", NoAction, NoChildren, 0))
  /\ UNCHANGED <<nDispatch, phase, observed, priorStates>>

Jump ==
  /\ \E index \in JumpIndexes :
       Commit(jump(Engine, index), ApiCall("jump", NoAction, NoChildren, index))
  /\ UNCHANGED <<nDispatch, phase, observed, priorStates>>

Serialize ==
  /\ Commit(serialize(Engine), ApiCall("serialize", NoAction, NoChildren, 0))
  /\ UNCHANGED <<nDispatch, phase, observed, priorStates>>

\* the caller passes back what serialize() gave it, or the same data under
\* another version
Deserialize ==
  /\ data.taken
  /\ \E v \in Versions :
       Commit(deserialize(Engine, [data EXCEPT !.version = v]),
              [ApiCall("deserialize", NoAction, NoChildren, 0)
                 EXCEPT !.version = v])
  /\ UNCHANGED <<nDispatch, phase, observed, priorStates>>

Clear ==
  /\ Commit(clear(Engine), ApiCall("clear", NoAction, NoChildren, 0))
  /\ UNCHANGED <<nDispatch, phase, observed, priorStates>>

\* The history state machine: reducers are registered, actions dispatched and
\* the cursor moved.
Next ==
  \/ DefineReducer
  \/ Dispatch
  \/ Undo
  \/ Redo
  \/ Jump
  \/ Clear

Spec == Init /\ [][Next]_vars

\* dispatch(action?) since 0.0.7: `undefined` is accepted as an action, "and it
\* is just ignored" (CHANGELOG).  UndefinedAction stands for the omitted
\* argument.
UndefinedAction == [name |-> Undefined, args |-> 0, seriesKey |-> Undefined]

dispatch_reads_name(h, action, children) ==
  IF action = UndefinedAction
  THEN Throw(h)
  ELSE dispatch(h, action, children)

dispatch_0_0_7(h, action, children) ==
  IF action = UndefinedAction
  THEN [h EXCEPT !.outcome = "ignored"]
  ELSE dispatch(h, action, children)

DispatchUndefined ==
  /\ Commit(dispatch_0_0_7(Engine, UndefinedAction, NoChildren),
            ApiCall("dispatch", UndefinedAction, NoChildren, 0))
  /\ UNCHANGED <<nDispatch, phase, observed, priorStates>>

DispatchDefined ==
  /\ nDispatch < MaxDispatch
  /\ \E d \in Dispatches :
       Commit(dispatch_0_0_7(Engine, d.action, d.children),
              ApiCall("dispatch", d.action, d.children, 0))
  /\ nDispatch' = nDispatch + 1
  /\ UNCHANGED <<phase, observed, priorStates>>

NextUndefined ==
  \/ DefineReducer
  \/ DispatchDefined
  \/ DispatchUndefined
  \/ Undo
  \/ Redo

SpecUndefined == Init /\ [][NextUndefined]_vars

\* defineReducer since 0.0.8: the `avoidOverriding` option "to avoid overriding
\* duplicated reducers" (CHANGELOG).  With the option set, a name that already
\* has a reducer is refused with an error and the registry is left alone;
\* without it the assignment of defineReducer overwrites.
ReducerIds == {"reducer_a", "reducer_b"}

defineReducer_overriding(h, avoidOverriding, name, reducer) ==
  defineReducer(h, name, reducer)

defineReducer_0_0_8(h, avoidOverriding, name, reducer) ==
  IF avoidOverriding /\ getReducer(h, name) # Undefined
  THEN Throw(h)
  ELSE defineReducer(h, name, reducer)

\* an engine made by useHistory({ avoidOverriding: true }): any reducer is
\* offered for any name, registered or not (the call record keeps the offered
\* reducer in the seriesKey slot of its action)
DefineReducerAvoiding ==
  /\ \E name \in ActionNames, reducer \in ReducerIds :
       Commit(defineReducer_0_0_8(Engine, TRUE, name, reducer),
              ApiCall("defineReducer",
                      [NoAction EXCEPT !.name = name, !.seriesKey = reducer],
                      NoChildren, 0))
  /\ UNCHANGED <<nDispatch, phase, observed, priorStates>>

AvoidingDispatch ==
  /\ DispatchFrom(PlainDispatches, MaxDispatch)
  /\ UNCHANGED <<phase, observed, priorStates>>

NextAvoiding ==
  \/ DefineReducerAvoiding
  \/ AvoidingDispatch
  \/ Undo
  \/ Redo

SpecAvoiding == Init /\ [][NextAvoiding]_vars

\* An engine with the default options whose caller registers reducers again
\* and again: any reducer for any name, one at a time or several at once (the
\* call record keeps the offered reducer in the seriesKey slot of its action,
\* the offered object in its version slot).
ReducerObjects == [ActionNames -> ReducerIds \cup {Undefined}]

DefineReducerAgain ==
  /\ \E name \in ActionNames, reducer \in ReducerIds :
       Commit(defineReducer(Engine, name, reducer),
              ApiCall("defineReducer",
                      [NoAction EXCEPT !.name = name, !.seriesKey = reducer],
                      NoChildren, 0))
  /\ UNCHANGED <<nDispatch, phase, observed, priorStates>>

DefineReducers ==
  /\ \E reducers \in ReducerObjects :
       Commit(defineReducers(Engine, reducers),
              [ApiCall("defineReducers", NoAction, NoChildren, 0)
                 EXCEPT !.version = reducers])
  /\ UNCHANGED <<nDispatch, phase, observed, priorStates>>

OverridingDispatch ==
  /\ DispatchFrom(PlainDispatches, MaxRedefined)
  /\ UNCHANGED <<phase, observed, priorStates>>

NextOverriding ==
  \/ DefineReducerAgain
  \/ DefineReducers
  \/ OverridingDispatch
  \/ Undo
  \/ Redo

SpecOverriding == Init /\ [][NextOverriding]_vars

\* The same engine whose caller also takes a snapshot and loads it back.
SerDispatch ==
  /\ DispatchFrom(PlainDispatches, MaxDispatch)
  /\ UNCHANGED <<phase, observed, priorStates>>

NextSerialize ==
  \/ DefineReducer
  \/ SerDispatch
  \/ Undo
  \/ Redo
  \/ Jump
  \/ Clear
  \/ Serialize
  \/ Deserialize

SpecSerialize == Init /\ [][NextSerialize]_vars

\* The caller serializes the engine and loads the result into another engine;
\* the variables then describe that engine.
FreshDeserialize ==
  /\ phase = "dispatch"
  /\ LET h == serialize(Engine)
     IN Commit(deserialize(another(h), h.data),
               [ApiCall("deserialize", NoAction, NoChildren, 0)
                  EXCEPT !.version = h.data.version])
  /\ phase' = "fresh"
  /\ UNCHANGED <<nDispatch, observed, priorStates>>

NextFresh ==
  \/ phase = "dispatch" /\ Next
  \/ FreshDeserialize

SpecFresh == Init /\ [][NextFresh]_vars

\* The caller loads the result of serialize() into another engine on which
\* only the reducers of `registered` were defined, and calls undo and redo
\* there.
LackingDeserialize ==
  /\ phase = "dispatch"
  /\ \E registered \in SUBSET ActionNames :
       LET h == serialize(Engine)
           lacking ==
             [another(h) EXCEPT !.reducerMap =
                [name \in ActionNames |->
                   IF name \in registered THEN h.reducerMap[name] ELSE Undefined]]
       IN Commit(deserialize(lacking, h.data),
                 [ApiCall("deserialize", NoAction, NoChildren, 0)
                    EXCEPT !.version = h.data.version])
  /\ phase' = "fresh"
  /\ UNCHANGED <<nDispatch, observed, priorStates>>

NextLacking ==
  \/ phase = "dispatch" /\ (DefineReducer \/ Dispatch \/ Undo)
  \/ LackingDeserialize
  \/ phase = "fresh" /\ (Undo \/ Redo)

SpecLacking == Init /\ [][NextLacking]_vars

\* The round-trip scenario: dispatch calls that return, then undo() until the
\* index is -1, then redo() until it is the last index.
RTDispatch ==
  /\ phase = "dispatch"
  /\ nDispatch < MaxRoundTrip
  /\ \E d \in Dispatches :
       LET h == dispatch(Engine, d.action, d.children)
       IN /\ h.outcome # "threw"
          /\ Commit(h, ApiCall("dispatch", d.action, d.children, 0))
          /\ observed' = h.state
  /\ nDispatch' = nDispatch + 1
  /\ UNCHANGED <<phase, priorStates>>

RTUndo ==
  /\ phase \in {"dispatch", "undo"}
  /\ currentStackIndex > -1
  /\ Commit(undo(Engine), ApiCall("undo", NoAction, NoChildren, 0))
  /\ phase' = "undo"
  /\ UNCHANGED <<nDispatch, observed, priorStates>>

RTRedo ==
  /\ \/ phase = "undo" /\ currentStackIndex = -1
     \/ phase = "redo"
  /\ currentStackIndex < Len(historyStack) - 1
  /\ Commit(redo(Engine), ApiCall("redo", NoAction, NoChildren, 0))
  /\ phase' = "redo"
  /\ UNCHANGED <<nDispatch, observed, priorStates>>

NextRoundTrip ==
  \/ DefineReducer
  \/ RTDispatch
  \/ RTUndo
  \/ RTRedo

SpecRoundTrip == Init /\ [][NextRoundTrip]_vars

\* The eviction scenario: dispatch calls that each append one entry, then
\* undo() again and again.  priorStates follows the stack: one external state
\* per retained entry, the one its dispatch started from.
EvDispatch ==
  /\ phase = "dispatch"
  /\ nDispatch < MaxRoundTrip
  /\ \E d \in Dispatches :
       LET h == dispatch(Engine, d.action, d.children)
           same == SelectSeq(historyStack, LAMBDA e : hasSameSeriesKey(e, d.action))
           applied == Append(priorStates, state)
       IN /\ h.outcome = "ok"
          /\ ~(/\ Len(same) > 0
               /\ isSameTypeSavedAction(
                    same[1], [name |-> d.action.name, children |-> d.children]))
          /\ Commit(h, ApiCall("dispatch", d.action, d.children, 0))
          /\ priorStates' = IF Len(applied) > max THEN Tail(applied) ELSE applied
  /\ nDispatch' = nDispatch + 1
  /\ UNCHANGED <<phase, observed>>

EvUndo ==
  /\ phase \in {"dispatch", "undo"}
  /\ Commit(undo(Engine), ApiCall("undo", NoAction, NoChildren, 0))
  /\ phase' = "undo"
  /\ UNCHANGED <<nDispatch, observed, priorStates>>

NextEvict ==
  \/ DefineReducer
  \/ EvDispatch
  \/ EvUndo

SpecEvict == Init /\ [][NextEvict]_vars

\* The series-with-children scenario: dispatch calls of ope_a in series k with
\* one or two children whose args vary, interleaved with single actions on the
\* same variables, then undo() and redo().
SeriesChildLists ==
  { ChildrenOf(<<ChildAction("ope_b", x)>>) : x \in Args } \cup
  { ChildrenOf(<<ChildAction("ope_b", x), ChildAction("ope_a", x)>>) : x \in Args }

SeriesDispatches ==
  [action : Actions, children : {NoChildren}] \cup
  [action : { a \in Actions : a.name = "ope_a" /\ a.seriesKey = "k" },
   children : SeriesChildLists]

CSDispatch ==
  /\ phase = "dispatch"
  /\ nDispatch < MaxDispatch
  /\ \E d \in SeriesDispatches :
       LET h == dispatch(Engine, d.action, d.children)
       IN /\ h.outcome # "threw"
          /\ Commit(h, ApiCall("dispatch", d.action, d.children, 0))
          /\ observed' = h.state
  /\ nDispatch' = nDispatch + 1
  /\ UNCHANGED <<phase, priorStates>>

NextChildSeries ==
  \/ DefineReducer
  \/ CSDispatch
  \/ RTUndo
  \/ RTRedo

SpecChildSeries == Init /\ [][NextChildSeries]_vars

\* ------------------------------------------------------------------------
\* Claims
\* ------------------------------------------------------------------------
\* What the last API call started from
FromStack == op.from.historyStack
FromIndex == op.from.currentStackIndex

Front(seq) == SubSeq(seq, 1, Len(seq) - 1)
Last(seq) == seq[Len(seq)]

\* s is t with some elements left out
RECURSIVE IsSubseq(_, _)
IsSubseq(s, t) ==
  IF Len(s) = 0 THEN TRUE
  ELSE IF Len(t) = 0 THEN FALSE
  ELSE IF Head(s) = Head(t) THEN IsSubseq(Tail(s), Tail(t))
  ELSE IsSubseq(s, Tail(t))

AtLastIndex == currentStackIndex = Len(historyStack) - 1

\* the last call was a dispatch that returned / that recorded its action
Returned == op.name = "dispatch" /\ op.outcome # "threw"
Recorded == op.name = "dispatch" /\ op.outcome = "ok"

\* the entries at or below the index the dispatch started from
Base ==
  SubSeq(FromStack, 1, MathMin(MathMax(FromIndex + 1, 0), Len(FromStack)))

\* the entries of Base in the series of the dispatched action, and the others
InSeries(e) ==
  /\ op.action.seriesKey \notin {Undefined, ""}
  /\ e.seriesKey = op.action.seriesKey
Series == SelectSeq(Base, InSeries)
Others == SelectSeq(Base, LAMBDA e : ~InSeries(e))

ChildNames(children) == [i \in 1..Len(children.items) |-> children.items[i].name]

\* same name, same child names in the same order and count
Compatible(e) ==
  /\ e.name = op.action.name
  /\ e.children.defined = op.children.defined
  /\ ChildNames(e.children) = ChildNames(op.children)

Coalescing == Len(Series) > 0 /\ Compatible(Series[1])

\* the entries the dispatched action is appended to
Rest == IF Coalescing THEN Others ELSE Base

\* the last entry is the dispatched action
NewOnTop ==
  /\ Len(historyStack) > 0
  /\ Last(historyStack).name = op.action.name
  /\ Last(historyStack).redoArgs = op.action.args
  /\ Last(historyStack).seriesKey = op.action.seriesKey

\* the reducer calls that re-apply / reverse an entry
RedoCallsOf(e) ==
  <<Call("redo", e.name, e.redoArgs)>> \o
  [i \in 1..Len(e.children.items) |->
     Call("redo", e.children.items[i].name, e.children.items[i].redoArgs)]

UndoCallsOf(e) ==
  LET n == Len(e.children.items)
  IN [i \in 1..n |-> Call("undo", e.children.items[n + 1 - i].name,
                          e.children.items[n + 1 - i].undoArgs)]
     \o <<Call("undo", e.name, e.undoArgs)>>

Unchanged ==
  /\ historyStack = FromStack
  /\ currentStackIndex = FromIndex
  /\ state = op.from.state
  /\ reducerMap = op.from.reducerMap


\* C1: after any sequence of dispatch calls, undo() until the index is -1 and
\* then redo() until the index is stack.length-1 reproduces the external state
\* observed right after the dispatches.
C1_RoundTrip ==
  (phase = "redo" /\ AtLastIndex) => state = observed

\* C2: in every state reached through dispatch, undo, redo, jump, clear and
\* deserialize of what serialize returned, -1 <= index <= stack.length - 1.
C2_IndexInRange ==
  -1 <= currentStackIndex /\ currentStackIndex <= Len(historyStack) - 1

\* C3: a dispatch that is recorded while the index c is below the last index
\* leaves in the stack, under the new entry, only entries that were at or below
\* c, in their order; a redo() right after it calls no reducer and moves nothing.
C3_RedoBranchDiscarded ==
  (Recorded /\ FromIndex < Len(FromStack) - 1) =>
     /\ NewOnTop
     /\ Len(historyStack) <= Len(Base) + 1
     /\ IsSubseq(Front(historyStack), Base)
     /\ LET r == redo(Engine)
        IN /\ r.outcome = "ignored"
           /\ r.calls = <<>>
           /\ r.notified = <<>>
           /\ r.historyStack = historyStack
           /\ r.currentStackIndex = currentStackIndex
           /\ r.state = state

\* a dispatch was recorded from an index that had entries below and above it
C3_Witness ==
  /\ Recorded
  /\ 0 <= FromIndex
  /\ FromIndex < Len(FromStack) - 1

C5_Capacity ==
  /\ Len(historyStack) <= max
  /\ (Recorded /\ Len(Rest) + 1 > max) =>
        IF max = 0
        THEN historyStack = <<>> /\ currentStackIndex = -1
        ELSE /\ Front(historyStack) = Tail(Rest)
             /\ NewOnTop
             /\ AtLastIndex

\* a dispatch on a full stack of two entries evicted the oldest
C5_Witness ==
  /\ Recorded
  /\ max = 2
  /\ Len(Rest) + 1 > max
  /\ Front(historyStack) = Tail(Rest)

\* C5 as stated: such a dispatch leaves the index on the new entry for every
\* max >= 0
C5_IndexOnNewEntry ==
  /\ Len(historyStack) <= max
  /\ (Recorded /\ Len(Rest) + 1 > max) =>
        /\ NewOnTop
        /\ AtLastIndex
        /\ Front(historyStack) = Tail(Rest)

\* C6 (as amended): right after a dispatch that is not duplicate-suppressed
\* returns, the index is stack.length - 1.
C6_RecordedAtLastIndex == Recorded => AtLastIndex

\* a dispatch was recorded without the stack growing (it replaced a redo branch
\* or a series, or evicted an entry)
C6_Witness ==
  /\ Recorded
  /\ Len(FromStack) > 0
  /\ Len(historyStack) <= Len(FromStack)

\* C6 as stated: right after any dispatch call returns
C6_AnyDispatchAtLastIndex == Returned => AtLastIndex

\* C7: undo() at index -1 and redo() at index stack.length - 1 change nothing,
\* call no reducer function and do not call onUpdated.
C7_BoundaryNoOps ==
  (\/ op.name = "undo" /\ FromIndex = -1
   \/ op.name = "redo" /\ FromIndex = Len(FromStack) - 1) =>
     /\ Unchanged
     /\ calls = <<>>
     /\ notified = <<>>
     /\ op.outcome = "ignored"

\* undo() was called at index -1 on a stack that has entries
C7_Witness ==
  /\ op.name = "undo"
  /\ FromIndex = -1
  /\ Len(FromStack) > 0

\* C8: one undo() at an index > -1 calls the undo functions of exactly the entry
\* at the index with its recorded undoArgs and decrements the index by 1; one
\* redo() below the last index calls the redo functions of exactly the entry at
\* index + 1 with its recorded redoArgs and increments the index by 1; each
\* calls onUpdated once.
C8_SingleStep ==
  /\ (op.name = "undo" /\ FromIndex > -1) =>
        /\ HasEntry(op.from, FromIndex)
        /\ calls = UndoCallsOf(FromStack[FromIndex + 1])
        /\ currentStackIndex = FromIndex - 1
        /\ Len(notified) = 1
  /\ (op.name = "redo" /\ FromIndex < Len(FromStack) - 1) =>
        /\ HasEntry(op.from, FromIndex + 1)
        /\ calls = RedoCallsOf(FromStack[FromIndex + 2])
        /\ currentStackIndex = FromIndex + 1
        /\ Len(notified) = 1

\* C9: dispatch and redo call the redo functions in the order primary, c1..cn;
\* undo calls the undo functions in the order cn..c1, primary; the entry is one
\* slot of the stack, which one undo() reverses and one redo() re-applies whole.
C9_ChildOrder ==
  /\ (Recorded /\ op.children.defined) =>
        /\ calls = <<Call("redo", op.action.name, op.action.args)>> \o
                   [i \in 1..Len(op.children.items) |->
                      Call("redo", op.children.items[i].name,
                           op.children.items[i].args)]
        /\ Len(historyStack) <= Len(Base) + 1
        /\ Len(historyStack) > 0 =>
             /\ NewOnTop
             /\ ChildNames(Last(historyStack).children) = ChildNames(op.children)
  /\ (/\ op.name = "redo"
      /\ HasEntry(op.from, FromIndex + 1)
      /\ FromStack[FromIndex + 2].children.defined) =>
        /\ calls = RedoCallsOf(FromStack[FromIndex + 2])
        /\ currentStackIndex = FromIndex + 1
        /\ historyStack = FromStack
  /\ (/\ op.name = "undo"
      /\ HasEntry(op.from, FromIndex)
      /\ FromStack[FromIndex + 1].children.defined) =>
        /\ calls = UndoCallsOf(FromStack[FromIndex + 1])
        /\ currentStackIndex = FromIndex - 1
        /\ historyStack = FromStack

\* one undo() reversed an entry with two children
C9_Witness ==
  /\ op.name = "undo"
  /\ op.outcome = "ok"
  /\ Len(FromStack[FromIndex + 1].children.items) = 2
  /\ Len(calls) = 3

\* n public undo() / redo() calls in a row
RECURSIVE UndoTimes(_, _)
UndoTimes(h, n) == IF n <= 0 THEN h ELSE UndoTimes(undo(h), n - 1)

RECURSIVE RedoTimes(_, _)
RedoTimes(h, n) == IF n <= 0 THEN h ELSE RedoTimes(redo(h), n - 1)

\* C10: jump(index) moves the index to `index` clamped into
\* [-1, stack.length - 1] and leaves the stack, the index and the external
\* state as that many undo() calls (target below) or redo() calls (target
\* above) would.
C10_JumpIsRepeatedStep ==
  op.name = "jump" =>
    LET target == MathMin(Len(FromStack) - 1, MathMax(-1, op.index))
        steps  == IF target < FromIndex
                  THEN UndoTimes(op.from, FromIndex - target)
                  ELSE RedoTimes(op.from, target - FromIndex)
    IN /\ currentStackIndex = target
       /\ historyStack = steps.historyStack
       /\ currentStackIndex = steps.currentStackIndex
       /\ state = steps.state

\* the index jump(index) aims at
JumpTarget == MathMin(Len(FromStack) - 1, MathMax(-1, op.index))

\* C11: jump calls onUpdated exactly once when the clamped target differs from
\* the index it starts from, however many entries lie between, and not at all
\* when the clamped target is the index it starts from.
C11_JumpNotifiesOnce ==
  op.name = "jump" =>
    IF JumpTarget # FromIndex
    THEN Len(notified) = 1
    ELSE notified = <<>>

\* C12: every dispatch that returns without being suppressed as a duplicate
\* calls onUpdated exactly once, whether its entry is appended, coalesced into
\* a series or evicts the oldest entry.
C12_DispatchNotifiesOnce == Recorded => Len(notified) = 1

\* the conditions under which dispatch returns before recording
Suppressible ==
  /\ op.name = "dispatch"
  /\ op.from.reducerMap[op.action.name] # Undefined
  /\ Reducer(op.from.reducerMap[op.action.name]).ignoreDuplication
  /\ FromIndex # -1
  /\ HasEntry(op.from, FromIndex)
  /\ FromStack[FromIndex + 1].name = op.action.name
  /\ FromStack[FromIndex + 1].redoArgs = op.action.args

\* C13 (as amended): a dispatch under the suppression conditions calls no redo
\* function, leaves the stack (its redo branch included) and the index as they
\* were and does not call onUpdated; in every other case a dispatch that does
\* not fail is recorded: the primary redo function is called with the action's
\* args, onUpdated is called, and for max >= 1 the action is the last entry.
C13_DuplicateSuppression ==
  /\ Suppressible =>
       /\ op.outcome = "ignored"
       /\ Unchanged
       /\ calls = <<>>
       /\ notified = <<>>
  /\ (op.name = "dispatch" /\ ~Suppressible /\ op.outcome # "threw") =>
       /\ op.outcome = "ok"
       /\ Len(calls) > 0
       /\ calls[1] = Call("redo", op.action.name, op.action.args)
       /\ Len(notified) > 0
       /\ max >= 1 => (NewOnTop /\ AtLastIndex)

\* a duplicate was dispatched below the last index: the redo branch survives
C13_Witness ==
  /\ Suppressible
  /\ FromIndex < Len(FromStack) - 1
  /\ op.outcome = "ignored"

\* C13 as stated: in every case but the suppressed one the dispatch is recorded
C13_EveryOtherCaseRecorded ==
  /\ Suppressible =>
       /\ op.outcome = "ignored"
       /\ Unchanged
       /\ calls = <<>>
       /\ notified = <<>>
  /\ (op.name = "dispatch" /\ ~Suppressible) => op.outcome = "ok"

\* the dispatched action or one of its children names no registered reducer
UnknownName ==
  \/ op.from.reducerMap[op.action.name] = Undefined
  \/ \E i \in 1..Len(op.children.items) :
       op.from.reducerMap[op.children.items[i].name] = Undefined

\* C14: a dispatch of an action whose name, or one of whose children's names,
\* has no registered reducer fails with an error and leaves the stack and the
\* index as they were, without calling onUpdated.
C14_UnknownNameFails ==
  (op.name = "dispatch" /\ UnknownName) =>
     /\ op.outcome = "threw"
     /\ historyStack = FromStack
     /\ currentStackIndex = FromIndex
     /\ notified = <<>>

\* C15: when a dispatch fails, no redo function has been called and the
\* external state is as it was before the call.
C15_AtomicFailure ==
  (op.name = "dispatch" /\ op.outcome = "threw") =>
     /\ calls = <<>>
     /\ state = op.from.state

\* sequences of undo() and redo() calls
StepSeqs == UNION { [1..n -> {"undo", "redo"}] : n \in 0..MaxSteps }

\* the engine after the calls of `steps`, with every reducer call it made
RECURSIVE Run(_, _)
Run(h, steps) ==
  IF Len(steps) = 0 THEN h
  ELSE Run(IF Head(steps) = "undo" THEN undo(h) ELSE redo(h), Tail(steps))

\* the last call loaded what serialize() of the engine op.from returned into
\* another engine
LoadedIntoAnother == op.name = "deserialize" /\ phase = "fresh"

\* C16: the engine that deserialized the result of serialize() has the stack
\* and the index of the original, and every sequence of undo() / redo() calls
\* gives on it the indexes, the external states and the reducer calls it gives
\* on the original.
C16_SerializationRoundTrip ==
  LoadedIntoAnother =>
    /\ historyStack = FromStack
    /\ currentStackIndex = FromIndex
    /\ \A steps \in StepSeqs :
         LET here  == Run(Engine, steps)
             there == Run(op.from, steps)
         IN /\ here.currentStackIndex = there.currentStackIndex
            /\ here.state = there.state
            /\ here.calls = there.calls
            /\ here.outcome = there.outcome

\* an engine with a redo branch and an entry with children was loaded into
\* another engine
C16_Witness ==
  /\ LoadedIntoAnother
  /\ 0 <= FromIndex
  /\ FromIndex < Len(FromStack) - 1
  /\ \E i \in 1..Len(historyStack) : historyStack[i].children.defined

\* C17: deserialize of a snapshot that serialize() returned replaces the stack
\* and the index with the snapshot's, calls no redo or undo function and calls
\* onUpdated exactly once.
C17_DeserializeFrame ==
  (op.name = "deserialize" /\ op.version = "0" /\ phase # "fresh") =>
    /\ historyStack = op.from.data.stack
    /\ currentStackIndex = op.from.data.currentStackIndex
    /\ calls = <<>>
    /\ state = op.from.state
    /\ Len(notified) = 1

\* deserialize replaced a stack and an index that differed from the snapshot's
C17_Witness ==
  /\ op.name = "deserialize"
  /\ op.version = "0"
  /\ phase # "fresh"
  /\ FromStack # historyStack
  /\ FromIndex # currentStackIndex
  /\ Len(historyStack) > 0

\* C18: once serialize() has returned, no call on the engine changes the stack
\* or the index recorded in the value it returned.
C18_SnapshotNotAliased ==
  (op.from.data.taken /\ op.name # "serialize") =>
    /\ data.stack = op.from.data.stack
    /\ data.currentStackIndex = op.from.data.currentStackIndex

\* C19: deserialize of a snapshot whose version is not "0" fails and leaves the
\* stack and the index as they were.
C19_IncompatibleSnapshot ==
  (op.name = "deserialize" /\ op.version # "0") =>
    /\ op.outcome = "threw"
    /\ historyStack = FromStack
    /\ currentStackIndex = FromIndex

\* The last of exactly three dispatch calls on the new engine: A with a
\* seriesKey, B of another name without one, A with the same seriesKey, none
\* with children.
SeriesScenario ==
  /\ phase = "dispatch"
  /\ nDispatch = 3
  /\ Recorded
  /\ ~op.children.defined
  /\ op.action.seriesKey \notin {Undefined, ""}
  /\ Len(FromStack) = 2
  /\ FromIndex = 1
  /\ FromStack[1].name = op.action.name
  /\ FromStack[1].seriesKey = op.action.seriesKey
  /\ ~FromStack[1].children.defined
  /\ FromStack[2].name # op.action.name
  /\ FromStack[2].seriesKey = Undefined
  /\ ~FromStack[2].children.defined

\* the part of the external state the reducer of `name` writes
FieldOf(name) == Reducer(reducerMap[name]).field

InitialState == [value |-> 0, value2 |-> 0]

\* the entry the scenario leaves on top
CoalescedA ==
  [FromStack[1] EXCEPT !.redoArgs = op.action.args]

\* C20 (as amended): after A (seriesKey k), B, A (seriesKey k) on an empty
\* engine with max >= 2 the stack is [B, A], A with the undoArgs of the first
\* A, and the index is 1; the first undo() reverses A with those undoArgs and
\* leaves B applied; the second undo() reverses B, which leaves the external
\* state as it was before the first A.
C20_SeriesExample ==
  SeriesScenario =>
    /\ historyStack = <<FromStack[2], CoalescedA>>
    /\ currentStackIndex = 1
    /\ LET u1 == undo(Engine)
           u2 == undo([u1 EXCEPT !.calls = <<>>])
       IN /\ u1.calls = <<Call("undo", op.action.name, FromStack[1].undoArgs)>>
          /\ u1.currentStackIndex = 0
          /\ u1.state[FieldOf(op.action.name)] = InitialState[FieldOf(op.action.name)]
          /\ u1.state[FieldOf(FromStack[2].name)] = FromStack[2].redoArgs
          /\ u2.calls = <<Call("undo", FromStack[2].name, FromStack[2].undoArgs)>>
          /\ u2.currentStackIndex = -1
          /\ u2.state = InitialState

\* the scenario happened with a second A whose args differ from the first's
C20_Witness ==
  /\ SeriesScenario
  /\ op.action.args # FromStack[1].redoArgs
  /\ FromStack[2].redoArgs # 0

\* C20 as stated: the first undo() leaves the external state as it was before
\* B, the second as it was before the first A
C20_FirstUndoReversesB ==
  SeriesScenario =>
    /\ historyStack = <<FromStack[2], CoalescedA>>
    /\ currentStackIndex = 1
    /\ LET u1 == undo(Engine)
           u2 == undo(u1)
       IN /\ u1.state = [InitialState EXCEPT
                           ![FieldOf(op.action.name)] = FromStack[1].redoArgs]
          /\ u2.state = InitialState

\* C21: with max = M, after more than M dispatches that each appended an
\* entry, undo() repeated until the index is -1 leaves the external state as
\* it was just before the oldest retained entry was applied, so the evicted
\* entries are never reversed; one more undo() changes nothing and calls no
\* reducer function.
C21_EvictedNeverReversed ==
  (phase = "undo" /\ nDispatch > max /\ currentStackIndex = -1) =>
    /\ Len(priorStates) = Len(historyStack)
    /\ Len(historyStack) > 0 => state = priorStates[1]
    /\ LET again == undo(Engine)
       IN /\ again.outcome # "threw"
          /\ again.calls = <<>>
          /\ again.state = state
          /\ again.historyStack = historyStack
          /\ again.currentStackIndex = -1
    /\ (op.name = "undo" /\ FromIndex = -1) => Unchanged /\ calls = <<>>

C21_Witness ==
  /\ phase = "undo"
  /\ nDispatch > max
  /\ max > 0
  /\ op.name = "undo"
  /\ FromIndex = 0
  /\ currentStackIndex = -1
  /\ priorStates[1] # InitialState
  /\ state = priorStates[1]

\* the call that brought the engine here is one the claim lists
ByDispatchUndoRedoJump ==
  op.name \in {"dispatch", "undo", "redo", "jump"} /\ op.outcome # "threw"

\* C22: after any dispatch, undo, redo or jump, getActionSummaries() returns
\* one summary per stack entry, in stack order: name is the entry's name,
\* label is the reducer's getLabel result when the reducer has a getLabel and
\* the entry's name otherwise, done is true exactly for the entries at an
\* index <= the cursor.  The call changes nothing and notifies nobody.
C22_ActionSummaries ==
  ByDispatchUndoRedoJump =>
    LET got == getActionSummaries(Engine)
        summaries == got.ret
    IN /\ got.outcome # "threw"
       /\ Len(summaries) = Len(historyStack)
       /\ \A i \in 1..Len(historyStack) :
            /\ summaries[i].name = historyStack[i].name
            /\ summaries[i].done = (i - 1 <= getCurrentIndex(Engine))
            /\ summaries[i].label =
                 (IF historyStack[i].name = "ope_b" THEN "label_ope_b"
                  ELSE historyStack[i].name)
       /\ [got EXCEPT !.ret = Engine.ret] = Engine

\* the state the getActionSummaries test ends in
C22_Witness ==
  /\ op.name = "undo"
  /\ Len(historyStack) = 2
  /\ getActionSummaries(Engine).ret =
       << [name |-> "ope_a", label |-> "ope_a", done |-> TRUE],
          [name |-> "ope_b", label |-> "label_ope_b", done |-> FALSE] >>

\* C23: clear() from any state empties the stack, sets the cursor to -1 and
\* fires onUpdated, and calls no reducer function (the external state and the
\* registry stay as they are); an undo() or a redo() issued right after it
\* calls no reducer function, notifies nobody and changes nothing.
C23_Clear ==
  op.name = "clear" =>
    /\ op.outcome = "ok"
    /\ historyStack = <<>>
    /\ currentStackIndex = -1
    /\ Len(notified) > 0
    /\ calls = <<>>
    /\ state = op.from.state
    /\ reducerMap = op.from.reducerMap
    /\ \A next \in {undo(Engine), redo(Engine)} :
         /\ next.outcome # "threw"
         /\ next.calls = <<>>
         /\ next.notified = <<>>
         /\ next.historyStack = <<>>
         /\ next.currentStackIndex = -1
         /\ next.state = state

\* clear() of a stack that has done entries and a redo branch
C23_Witness ==
  /\ op.name = "clear"
  /\ FromIndex >= 0
  /\ FromIndex < Len(FromStack) - 1
  /\ historyStack = <<>>
  /\ currentStackIndex = -1

C25_NotifiedWhenComplete ==
  (/\ op.name \in {"dispatch", "undo", "redo", "jump", "clear", "deserialize"}
   /\ op.outcome # "threw") =>
    \A i \in DOMAIN notified :
      /\ notified[i].length = Len(historyStack)
      /\ notified[i].index = currentStackIndex
      /\ -1 <= notified[i].index
      /\ notified[i].index <= notified[i].length - 1

C27_OnlyCursorMoves ==
  op.name \in {"undo", "redo", "jump"} =>
    /\ historyStack = FromStack
    /\ reducerMap = op.from.reducerMap

\* a redo whose reducer call returned something else than the recorded
\* undoArgs of the entry it re-applied
C27_Witness ==
  /\ op.name = "redo"
  /\ op.outcome = "ok"
  /\ currentStackIndex = FromIndex + 1
  /\ HasEntry(Engine, currentStackIndex)
  /\ LET current == historyStack[currentStackIndex + 1]
     IN /\ calls[1] = Call("redo", current.name, current.redoArgs)
        /\ op.from.state[Reducer(reducerMap[current.name]).field]
             # current.undoArgs

\* the dispatched action (j = 0) and its children (j >= 1), and for each the
\* value that its reducer's field held just before its redo call: what that
\* call returned
Dispatched(j) == IF j = 0 THEN op.action ELSE op.children.items[j]

OwnUndoArgs(i) ==
  LET field(j) == Reducer(op.from.reducerMap[Dispatched(j).name]).field
      earlier == { j \in 0..(i - 1) : field(j) = field(i) }
      latest == CHOOSE j \in earlier : \A k \in earlier : k <= j
  IN IF earlier = {} THEN op.from.state[field(i)] ELSE Dispatched(latest).args

\* the last entry is the dispatched action as dispatch built it: its own
\* undoArgs, and children with their own
AppendedUnmodified ==
  /\ NewOnTop
  /\ Last(historyStack).undoArgs = OwnUndoArgs(0)
  /\ Last(historyStack).children.defined = op.children.defined
  /\ Len(Last(historyStack).children.items) = Len(op.children.items)
  /\ \A i \in 1..Len(op.children.items) :
       Last(historyStack).children.items[i] =
         SavedChild(op.children.items[i].name, op.children.items[i].args,
                    OwnUndoArgs(i))

\* a dispatch with a seriesKey that finds no entry of that series at or below
\* the cursor, or whose first such entry is incompatible
NotCoalescing == Truthy(op.action.seriesKey) /\ ~Coalescing

\* C28 (as amended): when a dispatch that is not duplicate-suppressed carries
\* a seriesKey and the first entry with that seriesKey at or below the cursor
\* is incompatible, or there is none, the new entry is appended unmodified
\* with its own undoArgs and the entries at or below the cursor stay under it
\* unchanged, except that a stack made longer than max loses its entry at
\* index 0 (with max = 0, the new entry itself).
C28_IncompatibleAppended ==
  (Recorded /\ NotCoalescing) =>
    IF max = 0
    THEN historyStack = <<>>
    ELSE /\ AppendedUnmodified
         /\ Front(historyStack) =
              (IF Len(Base) + 1 > max THEN Tail(Base) ELSE Base)

\* an action with children was appended above an incompatible entry of its
\* series
C28_Witness ==
  /\ Recorded
  /\ NotCoalescing
  /\ Len(Series) > 0
  /\ Len(op.children.items) > 0
  /\ AppendedUnmodified
  /\ Front(historyStack) = Base

\* C28 as stated: of every such dispatch that returns, with all the entries at
\* or below the cursor kept
C28_AllKept ==
  (Returned /\ NotCoalescing) =>
    /\ AppendedUnmodified
    /\ Front(historyStack) = Base

\* C29: old actions having the same seriesKey are removed when an action with
\* a seriesKey is added: after a dispatch carrying seriesKey k returns, no
\* entry but the last has seriesKey k, and in every reachable state the stack
\* holds at most one entry per seriesKey.
C29_OneEntryPerSeriesKey ==
  /\ (Returned /\ Truthy(op.action.seriesKey)) =>
       \A i \in DOMAIN historyStack :
         historyStack[i].seriesKey = op.action.seriesKey =>
           i = Len(historyStack)
  /\ \A i, j \in DOMAIN historyStack :
       (/\ Truthy(historyStack[i].seriesKey)
        /\ historyStack[i].seriesKey = historyStack[j].seriesKey) => i = j

\* the entries above the cursor the dispatch started from
RedoBranch == SubSeq(FromStack, Len(Base) + 1, Len(FromStack))

InRedoBranch ==
  \E i \in DOMAIN RedoBranch : InSeries(RedoBranch[i])

\* C30: series matching scans the stack after the truncation: when a
\* dispatch with a seriesKey is recorded while an entry with that seriesKey
\* lies above the cursor, the stack keeps under the new entry only entries
\* that were at or below the cursor, and the new entry's undoArgs are those of
\* the first entry of the series at or below the cursor when that one is
\* compatible and its own otherwise, never those of the entry above the
\* cursor.  So dispatch A(k), undo, dispatch A(k) leaves one entry with the
\* undoArgs returned by the second dispatch's redo call.
C30_SeriesScansTruncated ==
  (Recorded /\ InRedoBranch /\ max > 0) =>
    /\ NewOnTop
    /\ Len(historyStack) <= Len(Base) + 1
    /\ IsSubseq(Front(historyStack), Base)
    /\ Last(historyStack).undoArgs =
         (IF Coalescing THEN Series[1].undoArgs ELSE OwnUndoArgs(0))
    /\ Base = <<>> =>
         /\ Len(historyStack) = 1
         /\ Last(historyStack).undoArgs = OwnUndoArgs(0)

\* a compatible entry of the series lay above the cursor with undoArgs other
\* than those the new entry got
C30_Witness ==
  /\ Recorded
  /\ max > 0
  /\ \E i \in DOMAIN RedoBranch :
       /\ InSeries(RedoBranch[i])
       /\ Compatible(RedoBranch[i])
       /\ RedoBranch[i].undoArgs # Last(historyStack).undoArgs
  /\ Last(historyStack).undoArgs = OwnUndoArgs(0)

\* the last call was a recorded dispatch with children that coalesced with
\* the first entry of its series
ChildrenCoalesced ==
  /\ Recorded
  /\ Coalescing
  /\ Len(op.children.items) > 0
  /\ max > 0

\* every dispatch before it appended an entry, and the first of them began
\* the series: the series began on the new engine
SeriesBeganAtStart ==
  /\ nDispatch = Len(FromStack) + 1
  /\ FromIndex = Len(FromStack) - 1
  /\ Series[1] = FromStack[1]

\* the parts of the external state the dispatched action and its children
\* write
Touched ==
  { Reducer(op.from.reducerMap[Dispatched(j).name]).field :
      j \in 0..Len(op.children.items) }

\* C31: when a dispatch with children coalesces with a compatible earlier
\* entry, the i-th child of the new entry has its own redoArgs and the
\* undoArgs of the i-th child of the first entry of the series (and the entry
\* the undoArgs of that first entry); one undo() of the merged entry calls the
\* undo functions with those undoArgs and, when the series began on the new
\* engine, leaves every variable the primary and the children write as it was
\* before the first action of the series; the redo() after it re-applies the
\* latest args and gives back the external state the dispatch left.
C31_ChildrenCoalesced ==
  ChildrenCoalesced =>
    /\ NewOnTop
    /\ Last(historyStack).undoArgs = Series[1].undoArgs
    /\ Len(Last(historyStack).children.items) = Len(op.children.items)
    /\ \A i \in 1..Len(op.children.items) :
         Last(historyStack).children.items[i] =
           SavedChild(op.children.items[i].name, op.children.items[i].args,
                      Series[1].children.items[i].undoArgs)
    /\ LET u == undo(Engine)
           r == redo([u EXCEPT !.calls = <<>>])
       IN /\ u.calls = UndoCallsOf(Last(historyStack))
          /\ u.currentStackIndex = currentStackIndex - 1
          /\ SeriesBeganAtStart =>
               \A f \in Touched : u.state[f] = InitialState[f]
          /\ r.calls = RedoCallsOf(Last(historyStack))
          /\ r.currentStackIndex = currentStackIndex
          /\ r.state = state

\* a series that began on the new engine was continued, after another action
\* on one of its variables, with other args for the primary and for a child
C31_Witness ==
  /\ ChildrenCoalesced
  /\ SeriesBeganAtStart
  /\ Len(FromStack) = 2
  /\ op.action.args # Series[1].redoArgs
  /\ op.children.items[1].args # Series[1].children.items[1].redoArgs
  /\ OwnUndoArgs(1) # Series[1].children.items[1].undoArgs
  /\ undo(Engine).state # state

\* the entry an undo() or redo() call acts on has a name, or a child's name,
\* without a registered reducer
LacksReducer(e) ==
  \/ op.from.reducerMap[e.name] = Undefined
  \/ \E i \in 1..Len(e.children.items) :
       op.from.reducerMap[e.children.items[i].name] = Undefined

OnUnknownEntry ==
  \/ /\ op.name = "undo"
     /\ FromIndex > -1
     /\ HasEntry(op.from, FromIndex)
     /\ LacksReducer(FromStack[FromIndex + 1])
  \/ /\ op.name = "redo"
     /\ FromIndex < Len(FromStack) - 1
     /\ HasEntry(op.from, FromIndex + 1)
     /\ LacksReducer(FromStack[FromIndex + 2])

\* C32: undo() or redo() on an entry whose name, or one of whose children's
\* names, has no registered reducer fails and mutates no state: the stack, the
\* cursor and the external state are as before the call and onUpdated is not
\* invoked.
C32_UnknownReducerAtomic ==
  OnUnknownEntry =>
    /\ op.outcome = "threw"
    /\ historyStack = FromStack
    /\ currentStackIndex = FromIndex
    /\ notified = <<>>
    /\ state = op.from.state

\* what the last defineReducer / defineReducers call offered for `name`
Offered(name) ==
  IF op.name = "defineReducer"
  THEN IF op.action.name = name THEN op.action.seriesKey ELSE Undefined
  ELSE op.version[name]

\* the call replaced the reducer of `name` by another one
Replaced(name) ==
  /\ op.name \in {"defineReducer", "defineReducers"}
  /\ op.from.reducerMap[name] # Undefined
  /\ Offered(name) # Undefined
  /\ Offered(name) # op.from.reducerMap[name]

\* C33: with the default options defineReducer / defineReducers on a name
\* that has a reducer replaces it without an error, leaves the stack, the
\* cursor and the external state alone and does not call onUpdated; the
\* reducers of the names not offered stay.  Reducers are looked up by name
\* when called: a dispatch of that name, and an undo() or redo() of an entry
\* of that name recorded before the replacement, call the new reducer (they
\* write the variable the new reducer writes).
C33_ReplacedAndLookedUpByName ==
  op.name \in {"defineReducer", "defineReducers"} =>
    /\ op.outcome = "ok"
    /\ historyStack = FromStack
    /\ currentStackIndex = FromIndex
    /\ state = op.from.state
    /\ notified = <<>>
    /\ calls = <<>>
    /\ \A name \in ActionNames :
         /\ reducerMap[name] =
              (IF Offered(name) # Undefined THEN Offered(name)
               ELSE op.from.reducerMap[name])
         /\ Replaced(name) =>
              LET field == Reducer(Offered(name)).field
                  d == dispatch(Engine, [name |-> name, args |-> MaxArg,
                                         seriesKey |-> Undefined], NoChildren)
                  u == undo(Engine)
                  r == redo(Engine)
              IN /\ d.outcome = "ok" =>
                      /\ d.state = [state EXCEPT ![field] = MaxArg]
                      /\ max > 0 =>
                           d.historyStack[Len(d.historyStack)].undoArgs
                             = state[field]
                 /\ d.outcome = "ignored" =>
                      Reducer(Offered(name)).ignoreDuplication
                 /\ (/\ currentStackIndex > -1
                     /\ historyStack[currentStackIndex + 1].name = name) =>
                      u.state = [state EXCEPT ![field] =
                                   historyStack[currentStackIndex + 1].undoArgs]
                 /\ (/\ currentStackIndex < Len(historyStack) - 1
                     /\ historyStack[currentStackIndex + 2].name = name) =>
                      r.state = [state EXCEPT ![field] =
                                   historyStack[currentStackIndex + 2].redoArgs]

\* a reducer was replaced by another one while an entry of its name was at
\* the cursor and another above it
C33_Witness ==
  /\ \E name \in ActionNames :
       /\ Replaced(name)
       /\ reducerMap[name] = Offered(name)
       /\ currentStackIndex > -1
       /\ currentStackIndex < Len(historyStack) - 1
       /\ historyStack[currentStackIndex + 1].name = name
       /\ historyStack[currentStackIndex + 2].name = name
       /\ undo(Engine).state # undo(op.from).state

\* C34: after any sequence of dispatch calls during which max evicts no entry
\* (there are no more calls than max), undo() repeated until the cursor is -1
\* leaves the external state exactly as it was before the first dispatch.
C34_FullUndoRestoresStart ==
  (phase = "undo" /\ currentStackIndex = -1 /\ nDispatch <= max) =>
    state = InitialState

\* a recorded dispatch coalesced on a stack that held max entries
CoalescedOnFullStack ==
  /\ Recorded
  /\ Coalescing
  /\ Len(FromStack) = max

\* C35 (as amended): coalescing is applied before the capacity cap: when the
\* stack holds max entries and a dispatch coalesces, the cap evicts nothing;
\* the stack becomes the entries at or below the cursor that do not have the
\* seriesKey, in their order, followed by the new entry.  Its length is at
\* most max, and exactly max when the cursor was on the last entry and one
\* entry had the seriesKey.
C35_CoalescingBeforeCap ==
  CoalescedOnFullStack =>
    /\ NewOnTop
    /\ Front(historyStack) = Others
    /\ Len(historyStack) <= max
    /\ (FromIndex = Len(FromStack) - 1 /\ Len(Series) = 1) =>
         Len(historyStack) = max

\* the series entry was the older of two entries of a full stack
C35_Witness ==
  /\ CoalescedOnFullStack
  /\ max = 2
  /\ FromIndex = 1
  /\ InSeries(FromStack[1])
  /\ ~InSeries(FromStack[2])
  /\ historyStack[1] = FromStack[2]
  /\ Len(historyStack) = 2

\* C35 as stated: the length is still max and every entry without the
\* seriesKey is still in the stack
C35_LengthStillMax ==
  CoalescedOnFullStack =>
    /\ Len(historyStack) = max
    /\ \A i \in DOMAIN FromStack :
         ~InSeries(FromStack[i]) =>
           \E j \in DOMAIN historyStack : historyStack[j] = FromStack[i]

\* the dispatch carries children that are not those of the entry at the cursor:
\* one has an array of children and the other has none, or the names or args
\* of the children differ
OtherChildren ==
  LET saved == FromStack[FromIndex + 1].children
      given == op.children
  IN \/ saved.defined # given.defined
     \/ Len(saved.items) # Len(given.items)
     \/ \E i \in DOMAIN saved.items :
          \/ saved.items[i].name # given.items[i].name
          \/ saved.items[i].redoArgs # given.items[i].args

====
